---- MODULE Spec2Model ----
(***************************************************************************)
(* A model of the arbitrage engine: the fetch client with its 429 retry    *)
(* policy (app/services/odds_fetcher.py), the normalizers, the arbitrage   *)
(* detector (app/services/arbitrage_engine.py) and the pipeline            *)
(* orchestrator (app/main.py).                                             *)
(*                                                                         *)
(* Python values are represented as follows.                               *)
(*   - None / an absent optional is the empty sequence, Some(x) is <<x>>.  *)
(*   - A raw JSON object is a TLA+ record; a missing key is a field that   *)
(*     is not in the record's DOMAIN, and {} is <<>>.  A scalar of a raw   *)
(*     bookmaker, market or outcome is Some(v), or None for a JSON null.   *)
(*   - A dict built by the program is a sequence of [k, v] entries in      *)
(*     insertion order (Python dicts iterate in insertion order).          *)
(*   - An implied probability is held as the exact fraction <<num, den>>   *)
(*     of the division that computes it; the detector's arithmetic is done *)
(*     on the floats these divisions give.                                 *)
(*   - A float read from a header text is [kind, val], val a decimal.      *)
(***************************************************************************)
EXTENDS Integers, Sequences, FiniteSets, TLC

VARIABLES
    \* ---- pipeline run (app/main.py) ----
    mode,               \* entry point of the run
    sport,              \* sport_key argument
    pc,                 \* position of the run
    markets,            \* market list used for per-event prop requests
    games_resp,         \* responses received by fetch_upcoming_games, in order
    fetch_site,         \* callers of fetch_upcoming_games, in order
    normalized_games,   \* normalized games (ordered dict game_id -> game)
    moneyline_opps,     \* result of detect_moneyline_arbitrage
    detect_calls,       \* number of detection calls made in the run
    idx,                \* index of the event being fetched (0 before the loop)
    \* ---- current _request_with_429_retry call ----
    attempt,            \* the local variable attempt
    resps,              \* responses received in this call, in order
    waits,              \* time.sleep durations of this call, in order
    last_header,        \* Retry-After header of the last response of this call
    ret,                \* what fetch_event_props returned / raised, if it ended
    \* ---- accumulated by fetch_prop_opportunities ----
    fate,               \* final outcome of each visited event, in order
    prop_requests,      \* total number of per-event prop requests issued
    prop_request_errors,
    opportunities,
    \* ---- storage collaborator ----
    handed_ml,          \* argument of upsert_moneyline_opportunities, if called
    handed_prop,        \* argument of upsert_prop_opportunities, if called
    upserted,           \* the upserts executed: [table, rows], in order
    raised_by,          \* "none", or the call whose failure ended the run
    \* ---- detector exercised on its own (arbitrage_engine.py) ----
    kind,               \* "h2h" or "prop": which selection function is used
    books,              \* ordered dict book -> (ordered dict side -> price)
    phase,              \* "build", "selected", "evaluated"
    best_a,             \* best price of side A (home / Over)
    best_b,             \* best price of side B (away / Under)
    arb,                \* result of detect_two_way_arbitrage
    rows,               \* result of detect_moneyline_arbitrage / detect_prop_arbitrage
    \* ---- moneyline normalizer exercised on its own (odds_fetcher.py) ----
    raw_bookmakers,     \* game["bookmakers"] of the raw game, in arrival order
    norm_phase,         \* "build", "normalized"
    norm_result         \* result of normalize_moneyline_odds

run_vars == <<mode, sport, pc, markets, games_resp, fetch_site, normalized_games,
              moneyline_opps, detect_calls, idx, attempt, resps, waits, last_header,
              ret, fate, prop_requests, prop_request_errors, opportunities, handed_ml,
              handed_prop, upserted, raised_by>>
arb_vars == <<kind, books, phase, best_a, best_b, arb, rows>>
norm_vars == <<raw_bookmakers, norm_phase, norm_result>>
vars == <<run_vars, arb_vars, norm_vars>>

(***************************************************************************)
(* Bounds of the model.                                                    *)
(***************************************************************************)
MaxGames == 2
MaxBooks == 2

(***************************************************************************)
(* Python values.                                                          *)
(***************************************************************************)
None == <<>>
Some(x) == <<x>>
EmptyDict == <<>>

\* d.get(k, default) on a raw JSON object
Get(d, k, default) == IF k \in DOMAIN d THEN d[k] ELSE default

\* Ordered dicts: sequences of [k, v].
DictHas(d, key) == \E i \in 1..Len(d) : d[i].k = key
DictIndex(d, key) == CHOOSE i \in 1..Len(d) : d[i].k = key
DictGet(d, key) == d[DictIndex(d, key)].v
\* d[key] = val : an existing key keeps its position
DictSet(d, key, val) ==
    IF DictHas(d, key)
    THEN [d EXCEPT ![DictIndex(d, key)] = [k |-> key, v |-> val]]
    ELSE Append(d, [k |-> key, v |-> val])

Abs(n) == IF n < 0 THEN -n ELSE n

RECURSIVE Pow2(_)
Pow2(n) == IF n <= 0 THEN 1 ELSE 2 * Pow2(n - 1)

(***************************************************************************)
(* app/config.py                                                           *)
(***************************************************************************)
SPORT_KEY_ALIASES ==
    [nhl |-> "icehockey_nhl", nfl |-> "americanfootball_nfl",
     soccer |-> "soccer_usa_mls", nba |-> "basketball_nba",
     mlb |-> "baseball_mlb", ufc |-> "mma_mixed_martial_arts"]

PROP_MARKETS_BY_SPORT ==
    [americanfootball_nfl |-> <<"player_pass_tds", "player_rush_yds", "player_rec_yds">>,
     basketball_nba |-> <<"player_points", "player_rebounds", "player_assists">>]

resolve_sport_key(sport_key) ==
    IF sport_key \in DOMAIN SPORT_KEY_ALIASES
    THEN SPORT_KEY_ALIASES[sport_key] ELSE sport_key

MONEYLINE_ARBITRAGE_TABLE == "moneyline_arbitrage_opportunities"
PROP_ARBITRAGE_TABLE == "prop_arbitrage_opportunities"

get_prop_markets(sport_key) ==
    IF resolve_sport_key(sport_key) \in DOMAIN PROP_MARKETS_BY_SPORT
    THEN PROP_MARKETS_BY_SPORT[resolve_sport_key(sport_key)] ELSE <<>>

(***************************************************************************)
(* odds_to_probability (odds_fetcher.py): the implied probability of an    *)
(* American price, as the exact fraction <<num, den>>.                     *)
(***************************************************************************)
\* mutant: the sign of the price is ignored
odds_to_probability_unsigned(odds) == <<100, Abs(odds) + 100>>

odds_to_probability(odds) ==
    IF odds > 0 THEN <<100, odds + 100>>
    ELSE <<Abs(odds), Abs(odds) + 100>>

\* comparisons of two implied probabilities (rounding to a float is monotone)
ProbLeq(p, q) == p[1] * q[2] <= q[1] * p[2]
ProbLess(p, q) == p[1] * q[2] < q[1] * p[2]

(***************************************************************************)
(* Python floats: IEEE 754 binary64, round to nearest, ties to even.       *)
(* A nonnegative float x below 2^26 is written as the integer              *)
(* x * 2^FractionBits, in NumLimbs limbs of LimbBits bits, least           *)
(* significant limb first.  Every float the detector computes from integer *)
(* prices of absolute value below 262,000 is such an integer.              *)
(***************************************************************************)
Precision == 53
LimbBits == 13
LimbBase == 8192
FractionLimbs == 6
NumLimbs == 8
FractionBits == FractionLimbs * LimbBits

RECURSIVE BitsOf(_)
BitsOf(x) == IF x = 0 THEN 0 ELSE 1 + BitsOf(x \div 2)

\* the most significant nonzero limb among the first j (0 if none), and the
\* length in bits
RECURSIVE TopLimb(_, _)
TopLimb(N, j) == IF j = 0 \/ N[j] # 0 THEN j ELSE TopLimb(N, j - 1)
BitLen(N) ==
    LET top == TopLimb(N, NumLimbs)
    IN  IF top = 0 THEN 0 ELSE LimbBits * (top - 1) + BitsOf(N[top])

\* 2^b for a bit position b within a limb
LimbPowers == <<1, 2, 4, 8, 16, 32, 64, 128, 256, 512, 1024, 2048, 4096>>
\* bit i; whether the bits below bit t are all zero; 2^t; N with them cleared
Bit(N, i) == (N[i \div LimbBits + 1] \div LimbPowers[(i % LimbBits) + 1]) % 2
LowBitsZero(N, t) ==
    /\ \A j \in 1..(t \div LimbBits) : N[j] = 0
    /\ N[t \div LimbBits + 1] % LimbPowers[(t % LimbBits) + 1] = 0
PowerOfTwo(t) ==
    LET limb == t \div LimbBits + 1
        power == LimbPowers[(t % LimbBits) + 1]
    IN  [j \in 1..NumLimbs |-> IF j = limb THEN power ELSE 0]
Truncate(N, t) ==
    LET limb == t \div LimbBits + 1
        power == LimbPowers[(t % LimbBits) + 1]
    IN  [j \in 1..NumLimbs |->
            IF j < limb THEN 0
            ELSE IF j = limb THEN N[j] - (N[j] % power)
            ELSE N[j]]

RECURSIVE AddLimbs(_, _, _, _)
AddLimbs(X, Y, j, carry) ==
    IF j > NumLimbs THEN <<>>
    ELSE <<(X[j] + Y[j] + carry) % LimbBase>>
         \o AddLimbs(X, Y, j + 1, (X[j] + Y[j] + carry) \div LimbBase)
BigAdd(X, Y) == AddLimbs(X, Y, 1, 0)

\* X - Y for X >= Y
RECURSIVE SubLimbs(_, _, _, _)
SubLimbs(X, Y, j, borrow) ==
    IF j > NumLimbs THEN <<>>
    ELSE LET v == X[j] - Y[j] - borrow
         IN  <<IF v < 0 THEN v + LimbBase ELSE v>>
             \o SubLimbs(X, Y, j + 1, IF v < 0 THEN 1 ELSE 0)
BigSub(X, Y) == SubLimbs(X, Y, 1, 0)

\* X * c for a small natural number c
RECURSIVE MulLimbs(_, _, _, _)
MulLimbs(X, c, j, carry) ==
    IF j > NumLimbs THEN <<>>
    ELSE <<(X[j] * c + carry) % LimbBase>>
         \o MulLimbs(X, c, j + 1, (X[j] * c + carry) \div LimbBase)
BigMul(X, c) == MulLimbs(X, c, 1, 0)

\* the exact value N rounded to a float: Precision significant bits, a tie
\* going to the even significand
RoundToFloat(N) ==
    LET t == BitLen(N) - Precision
    IN  IF t <= 0 THEN N
        ELSE IF Bit(N, t - 1) = 1 /\ (~LowBitsZero(N, t - 1) \/ Bit(N, t) = 1)
        THEN BigAdd(Truncate(N, t), PowerOfTwo(t))
        ELSE Truncate(N, t)

\* the fraction limbs of r / d for r < d, least significant first, and the
\* remainder left after them
RECURSIVE QuotientLimbs(_, _, _)
QuotientLimbs(r, d, k) ==
    IF k = 0 THEN <<>>
    ELSE QuotientLimbs((r * LimbBase) % d, d, k - 1) \o <<(r * LimbBase) \div d>>
RECURSIVE LastRemainder(_, _, _)
LastRemainder(r, d, k) ==
    IF k = 0 THEN r ELSE LastRemainder((r * LimbBase) % d, d, k - 1)

\* n / d cut after FractionBits bits; the lowest bit is set when bits were cut
\* off (it lies far below the rounding position, where it makes the value count
\* as inexact)
BigQuotient(n, d) ==
    LET low == QuotientLimbs(n % d, d, FractionLimbs)
        inexact == LastRemainder(n % d, d, FractionLimbs) # 0
        whole == n \div d
    IN  <<IF inexact /\ low[1] % 2 = 0 THEN low[1] + 1 ELSE low[1]>>
        \o Tail(low) \o <<whole % LimbBase, whole \div LimbBase>>

\* the float an implied probability <<num, den>> stands for: the true division
\* num / den
FloatOf(p) == RoundToFloat(BigQuotient(p[1], p[2]))

\* round(x, 3) in thousandths: the exact value of the float x, rounded half-even
\* to three decimals (float.__round__ rounds the exact binary value)
RoundTo3(x) ==
    LET N == BigMul(x, 1000)
        whole == N[FractionLimbs + 1] + LimbBase * N[FractionLimbs + 2]
    IN  IF Bit(N, FractionBits - 1) = 1
           /\ (~LowBitsZero(N, FractionBits - 1) \/ whole % 2 = 1)
        THEN whole + 1 ELSE whole

\* side_a["implied_prob"] + side_b["implied_prob"]
ProbAdd(p, q) == RoundToFloat(BigAdd(FloatOf(p), FloatOf(q)))
\* mutant: a total of exactly 1 passes the test
ProbGeqOne_strict(total) ==
    BitLen(total) > FractionBits /\ total # PowerOfTwo(FractionBits)
\* total_prob >= 1
ProbGeqOne(total) == BitLen(total) > FractionBits
\* round((1 - total_prob) * 100, 3), in thousandths of a percent
ProfitPercentMilli(total) ==
    RoundTo3(RoundToFloat(BigMul(RoundToFloat(BigSub(PowerOfTwo(FractionBits), total)), 100)))

(***************************************************************************)
(* Normalizer (odds_fetcher.py).  Raw JSON scalars are optional: a field   *)
(* holds Some(v), or None for a JSON null, or is missing.                  *)
(***************************************************************************)
\* `not x` for an optional string
Falsy(x) == x = None \/ x = Some("")

\* bookmaker.get("title", bookmaker.get("key"))
BookName(bookmaker) == Get(bookmaker, "title", Get(bookmaker, "key", None))

\* the price entry stored for one outcome
PriceEntry(odds) == [odds |-> odds, implied_prob |-> odds_to_probability(odds)]

\* next((m for m in markets if m.get("key") == "h2h"), None)
RECURSIVE FirstH2H(_)
FirstH2H(mkts) ==
    IF mkts = <<>> THEN None
    ELSE IF Get(Head(mkts), "key", None) = Some("h2h") THEN Some(Head(mkts))
    ELSE FirstH2H(Tail(mkts))

\* the loop over market["outcomes"] that fills `teams`
RECURSIVE MoneylineTeams(_, _)
MoneylineTeams(outcomes, teams) ==
    IF outcomes = <<>> THEN teams
    ELSE LET o == Head(outcomes)
             team == Get(o, "name", None)
             odds == Get(o, "price", None)
         IN  IF team = None \/ odds = None
             THEN MoneylineTeams(Tail(outcomes), teams)
             ELSE MoneylineTeams(Tail(outcomes),
                                 DictSet(teams, team[1], PriceEntry(odds[1])))

\* mutant: a skipped bookmaker ends the loop (break in place of continue)
RECURSIVE MoneylineBooks_break(_, _)
MoneylineBooks_break(bookmakers, bks) ==
    IF bookmakers = <<>> THEN bks
    ELSE LET bookmaker == Head(bookmakers)
             book_name == BookName(bookmaker)
             market == FirstH2H(Get(bookmaker, "markets", <<>>))
             teams == MoneylineTeams(Get(market[1], "outcomes", <<>>), <<>>)
         IN  IF Falsy(book_name) THEN bks
             ELSE IF market = None THEN bks
             ELSE IF teams # <<>>
                  THEN MoneylineBooks_break(Tail(bookmakers),
                                            DictSet(bks, book_name[1], teams))
                  ELSE bks

\* the loop over game["bookmakers"] that fills game_data["books"]
RECURSIVE MoneylineBooks(_, _)
MoneylineBooks(bookmakers, bks) ==
    IF bookmakers = <<>> THEN bks
    ELSE LET bookmaker == Head(bookmakers)
             book_name == BookName(bookmaker)
             market == FirstH2H(Get(bookmaker, "markets", <<>>))
             teams == MoneylineTeams(Get(market[1], "outcomes", <<>>), <<>>)
         IN  IF Falsy(book_name) THEN MoneylineBooks(Tail(bookmakers), bks)
             ELSE IF market = None THEN MoneylineBooks(Tail(bookmakers), bks)
             ELSE IF teams # <<>>
                  THEN MoneylineBooks(Tail(bookmakers), DictSet(bks, book_name[1], teams))
                  ELSE MoneylineBooks(Tail(bookmakers), bks)

RECURSIVE NormalizeGames(_, _)
NormalizeGames(raw_games, normalized) ==
    IF raw_games = <<>> THEN normalized
    ELSE LET game == Head(raw_games)
             game_data == [game_id |-> game.id,
                           home_team |-> game.home_team,
                           away_team |-> game.away_team,
                           books |-> MoneylineBooks(Get(game, "bookmakers", <<>>), <<>>)]
         IN  NormalizeGames(Tail(raw_games), DictSet(normalized, game.id, game_data))

normalize_moneyline_odds(raw_games) == NormalizeGames(raw_games, <<>>)

\* str(v) of an f-string field: a string is itself, an integer its decimal
\* text, a boolean True or False, and a float (carried as the record of its
\* shortest round-trip text, [repr |-> "25.5"]) that text
Str(v) ==
    CASE ToString(v) = "TRUE" -> "True"
      [] ToString(v) = "FALSE" -> "False"
      [] Head(ToString(v)) = "\"" -> v
      [] Head(ToString(v)) = "[" -> v.repr
      [] OTHER -> ToString(v)

\* f"{player}|{line}"
PlayerLineKey(player, line) == Str(player) \o "|" \o Str(line)

\* one outcome of a prop market added to its market bucket
PropAddOutcome(bucket, book_name, o) ==
    LET side == Get(o, "name", None)
        player == Get(o, "description", None)
        line == Get(o, "point", None)
        odds == Get(o, "price", None)
        key == PlayerLineKey(player[1], line[1])
        entry == IF DictHas(bucket, key) THEN DictGet(bucket, key)
                 ELSE [player |-> player[1], line |-> line[1], books |-> <<>>]
        book_entry == IF DictHas(entry.books, book_name)
                      THEN DictGet(entry.books, book_name) ELSE <<>>
    IN  IF side \notin {Some("Over"), Some("Under")} THEN bucket
        ELSE IF player = None \/ line = None \/ odds = None THEN bucket
        ELSE DictSet(bucket, key,
                 [entry EXCEPT !.books =
                     DictSet(entry.books, book_name,
                             DictSet(book_entry, side[1], PriceEntry(odds[1])))])

RECURSIVE PropOutcomes(_, _, _)
PropOutcomes(outcomes, bucket, book_name) ==
    IF outcomes = <<>> THEN bucket
    ELSE PropOutcomes(Tail(outcomes), PropAddOutcome(bucket, book_name, Head(outcomes)),
                      book_name)

\* the loop over bookmaker["markets"]; by_market is normalized[game_id]
RECURSIVE PropMarkets(_, _, _)
PropMarkets(mkts, by_market, book_name) ==
    IF mkts = <<>> THEN by_market
    ELSE LET market == Head(mkts)
             market_type == Get(market, "key", None)
             market_bucket == IF DictHas(by_market, market_type[1])
                              THEN DictGet(by_market, market_type[1]) ELSE <<>>
         IN  IF Falsy(market_type) THEN PropMarkets(Tail(mkts), by_market, book_name)
             ELSE PropMarkets(Tail(mkts),
                      DictSet(by_market, market_type[1],
                              PropOutcomes(Get(market, "outcomes", <<>>),
                                           market_bucket, book_name)),
                      book_name)

RECURSIVE PropBookmakers(_, _)
PropBookmakers(bookmakers, by_market) ==
    IF bookmakers = <<>> THEN by_market
    ELSE LET bookmaker == Head(bookmakers)
             book_name == BookName(bookmaker)
         IN  IF Falsy(book_name) THEN PropBookmakers(Tail(bookmakers), by_market)
             ELSE PropBookmakers(Tail(bookmakers),
                      PropMarkets(Get(bookmaker, "markets", <<>>), by_market,
                                  book_name[1]))

normalize_prop_odds(game_id, raw_event_odds) ==
    <<[k |-> game_id,
       v |-> PropBookmakers(Get(raw_event_odds, "bookmakers", <<>>), <<>>)]>>

(***************************************************************************)
(* Arbitrage detector (arbitrage_engine.py).                               *)
(***************************************************************************)
\* mutant: the two legs must come from different bookmakers
detect_two_way_arbitrage_cross_book(side_a, side_b) ==
    IF side_a = None \/ side_b = None THEN None
    ELSE LET total_prob == ProbAdd(side_a[1].implied_prob, side_b[1].implied_prob)
         IN  IF ProbGeqOne(total_prob) \/ side_a[1].book = side_b[1].book THEN None
             ELSE Some([profit_percent |-> ProfitPercentMilli(total_prob),
                        over_book |-> side_a[1].book,
                        under_book |-> side_b[1].book,
                        over_odds |-> side_a[1].odds,
                        under_odds |-> side_b[1].odds])

detect_two_way_arbitrage(side_a, side_b) ==
    IF side_a = None \/ side_b = None THEN None
    ELSE LET total_prob == ProbAdd(side_a[1].implied_prob, side_b[1].implied_prob)
         IN  IF ProbGeqOne(total_prob) THEN None
             ELSE Some([profit_percent |-> ProfitPercentMilli(total_prob),
                        over_book |-> side_a[1].book,
                        under_book |-> side_b[1].book,
                        over_odds |-> side_a[1].odds,
                        under_odds |-> side_b[1].odds])

\* mutant: a later book with equal odds replaces the earlier one
Better_or_equal(best, odds) == best = None \/ odds >= best[1].odds

\* `best is None or odds > best["odds"]`
Better(best, odds) == best = None \/ odds > best[1].odds

\* the scan shared by _best_price_for_team and _best_prop_side: book_dict is the
\* ordered dict book -> (ordered dict name -> price entry)
RECURSIVE BestScan(_, _, _)
BestScan(book_dict, name, best) ==
    IF book_dict = <<>> THEN best
    ELSE LET book == Head(book_dict).k
             sides == Head(book_dict).v
         IN  IF ~DictHas(sides, name) THEN BestScan(Tail(book_dict), name, best)
             ELSE LET data == DictGet(sides, name)
                  IN  IF Better(best, data.odds)
                      THEN BestScan(Tail(book_dict), name,
                                    Some([book |-> book, odds |-> data.odds,
                                          implied_prob |-> data.implied_prob]))
                      ELSE BestScan(Tail(book_dict), name, best)

_best_price_for_team(game_data, team_name) == BestScan(game_data.books, team_name, None)

_best_prop_side(books_data, side_name) == BestScan(books_data, side_name, None)

\* an opportunity row: the identifying fields followed by **arb
Row(game_id, market_type, player_name, line_value, home_team, away_team, found) ==
    [game_id |-> game_id, market_type |-> market_type,
     player_name |-> player_name, line_value |-> line_value,
     home_team |-> home_team, away_team |-> away_team,
     profit_percent |-> found.profit_percent,
     over_book |-> found.over_book, under_book |-> found.under_book,
     over_odds |-> found.over_odds, under_odds |-> found.under_odds]

RECURSIVE MoneylineScan(_)
MoneylineScan(games_by_id) ==
    IF games_by_id = <<>> THEN <<>>
    ELSE LET game_id == Head(games_by_id).k
             game == Head(games_by_id).v
             home == _best_price_for_team(game, game.home_team)
             away == _best_price_for_team(game, game.away_team)
             found == detect_two_way_arbitrage(home, away)
         IN  IF found = None THEN MoneylineScan(Tail(games_by_id))
             ELSE <<Row(game_id, "h2h", None, None, Some(game.home_team),
                        Some(game.away_team), found[1])>>
                  \o MoneylineScan(Tail(games_by_id))

detect_moneyline_arbitrage(games_by_id) == MoneylineScan(games_by_id)

\* the loop over one market's player lines
RECURSIVE PropLineScan(_, _, _)
PropLineScan(game_id, market_type, player_lines) ==
    IF player_lines = <<>> THEN <<>>
    ELSE LET player_line_data == Head(player_lines).v
             over == _best_prop_side(player_line_data.books, "Over")
             under == _best_prop_side(player_line_data.books, "Under")
             found == detect_two_way_arbitrage(over, under)
             rest == PropLineScan(game_id, market_type, Tail(player_lines))
         IN  IF found = None THEN rest
             ELSE <<Row(game_id, market_type, Some(player_line_data.player),
                        Some(player_line_data.line), None, None, found[1])>> \o rest

RECURSIVE PropMarketScan(_, _)
PropMarketScan(game_id, by_market) ==
    IF by_market = <<>> THEN <<>>
    ELSE PropLineScan(game_id, Head(by_market).k, Head(by_market).v)
         \o PropMarketScan(game_id, Tail(by_market))

RECURSIVE PropGameScan(_)
PropGameScan(normalized_props) ==
    IF normalized_props = <<>> THEN <<>>
    ELSE PropMarketScan(Head(normalized_props).k, Head(normalized_props).v)
         \o PropGameScan(Tail(normalized_props))

detect_prop_arbitrage(normalized_props) == PropGameScan(normalized_props)

(***************************************************************************)
(* The upstream odds API, as the fetch client sees it: every request is    *)
(* answered by a successful response with a payload, by an error status    *)
(* (response.raise_for_status() raises HTTPError), or by no response at    *)
(* all (requests.get raises a Timeout / ConnectionError).                  *)
(***************************************************************************)
max_retries == 3
\* the default min_profit_percent of the upserts, 1.99, in thousandths of a percent
min_profit_percent == 1990

\* values of the Retry-After header of a 429 response
RetryAfterHeaders ==
    {None, Some(""), Some("abc"), Some("-1"), Some("0"), Some("2"), Some("3"),
     Some(" 1.5"), Some("9223372000"), Some("1e10"), Some("nan"), Some("inf")}

OkResponse(payload) ==
    [kind |-> "ok", status |-> 200, header |-> None, payload |-> payload]
ErrorResponse(status, header) ==
    [kind |-> "http", status |-> status, header |-> header, payload |-> EmptyDict]
NoResponse ==
    [kind |-> "exc", status |-> 0, header |-> None, payload |-> EmptyDict]

ErrorResponses ==
    {ErrorResponse(429, h) : h \in RetryAfterHeaders} \cup {ErrorResponse(500, None)}

\* what is kept of a response in the logs
Summary(r) == [kind |-> r.kind, status |-> r.status]

\* mutant: raise_for_status() is left out, an error body is returned as payload
RequestOutcome_no_raise(r) == IF r.kind = "exc" THEN "Timeout" ELSE "return"

\* _request: the exception raised for a response, if any
RequestOutcome(r) ==
    CASE r.kind = "ok" -> "return"
      [] r.kind = "http" -> "HTTPError"
      [] OTHER -> "Timeout"

(***************************************************************************)
(* float(text) and the floats time.sleep is given.  A float read from a    *)
(* text is [kind, val]: kind is "finite", "inf" or "nan" ("ValueError"     *)
(* when float(text) raises), and val is [neg, digits, exp], the sign and   *)
(* the decimal 0.digits * 10^exp the text denotes (digits without leading  *)
(* or trailing zeros, "" for zero); the float is the double nearest to it. *)
(***************************************************************************)
\* the characters float() strips, among those a header can hold (U+0000 to
\* U+00FF): tab, line feed, vertical tab, form feed, carriage return, space,
\* next line (U+0085) and no-break space (U+00A0)
WhiteSpace == {" ", "\t", "\n", "\f", "\r", "", "", " "}
DigitChars == {"0", "1", "2", "3", "4", "5", "6", "7", "8", "9"}
Char(s, i) == SubSeq(s, i, i)
DigitValue(c) == CHOOSE d \in 0..9 : ToString(d) = c

\* the first and the last position in lo..hi of a character that is in `chars`
\* (when `member`) or not in it, 0 if there is none
RECURSIVE FirstIndex(_, _, _, _, _)
FirstIndex(s, chars, member, lo, hi) ==
    IF lo > hi THEN 0
    ELSE IF lo = hi THEN (IF (Char(s, lo) \in chars) = member THEN lo ELSE 0)
    ELSE LET mid == (lo + hi) \div 2
             left == FirstIndex(s, chars, member, lo, mid)
         IN  IF left # 0 THEN left ELSE FirstIndex(s, chars, member, mid + 1, hi)
RECURSIVE LastIndex(_, _, _, _, _)
LastIndex(s, chars, member, lo, hi) ==
    IF lo > hi THEN 0
    ELSE IF lo = hi THEN (IF (Char(s, lo) \in chars) = member THEN lo ELSE 0)
    ELSE LET mid == (lo + hi) \div 2
             right == LastIndex(s, chars, member, mid + 1, hi)
         IN  IF right # 0 THEN right ELSE LastIndex(s, chars, member, lo, mid)

\* s without the leading and trailing characters that are in `chars`
StripLeft(s, chars) ==
    IF FirstIndex(s, chars, FALSE, 1, Len(s)) = 0 THEN ""
    ELSE SubSeq(s, FirstIndex(s, chars, FALSE, 1, Len(s)), Len(s))
StripRight(s, chars) == SubSeq(s, 1, LastIndex(s, chars, FALSE, 1, Len(s)))

\* an underscore is allowed only between two digits
UnderscoresOk(s) ==
    \A i \in 1..Len(s) :
        Char(s, i) = "_" => /\ i > 1 /\ i < Len(s)
                            /\ Char(s, i - 1) \in DigitChars
                            /\ Char(s, i + 1) \in DigitChars
RECURSIVE WithoutUnderscores(_)
WithoutUnderscores(s) ==
    IF Len(s) <= 1 THEN (IF s = "_" THEN "" ELSE s)
    ELSE WithoutUnderscores(SubSeq(s, 1, Len(s) \div 2))
         \o WithoutUnderscores(SubSeq(s, Len(s) \div 2 + 1, Len(s)))

\* the letters of inf, infinity and nan in lower case
RECURSIVE Lower(_)
Lower(s) ==
    LET c == Head(s)
    IN  IF s = "" THEN ""
        ELSE (CASE c = "I" -> "i" [] c = "N" -> "n" [] c = "F" -> "f"
                [] c = "T" -> "t" [] c = "Y" -> "y" [] c = "A" -> "a"
                [] OTHER -> c) \o Lower(Tail(s))

\* s without its sign
Unsigned(s) == IF s # "" /\ Head(s) \in {"+", "-"} THEN Tail(s) ELSE s

\* the parts of  [digits][.digits][(e|E)[sign]digits]
ExponentMark(body) == FirstIndex(body, {"e", "E"}, TRUE, 1, Len(body))
MantissaText(body) ==
    IF ExponentMark(body) = 0 THEN body ELSE SubSeq(body, 1, ExponentMark(body) - 1)
ExponentText(body) ==
    IF ExponentMark(body) = 0 THEN ""
    ELSE SubSeq(body, ExponentMark(body) + 1, Len(body))
IntegerDigits(body) ==
    LET m == MantissaText(body)
        point == FirstIndex(m, {"."}, TRUE, 1, Len(m))
    IN  IF point = 0 THEN m ELSE SubSeq(m, 1, point - 1)
FractionDigits(body) ==
    LET m == MantissaText(body)
        point == FirstIndex(m, {"."}, TRUE, 1, Len(m))
    IN  IF point = 0 THEN "" ELSE SubSeq(m, point + 1, Len(m))
AllDigits(s) == \A i \in 1..Len(s) : Char(s, i) \in DigitChars

\* the unsigned text is a decimal number
ValidNumber(body) ==
    /\ AllDigits(IntegerDigits(body)) /\ AllDigits(FractionDigits(body))
    /\ Len(IntegerDigits(body)) + Len(FractionDigits(body)) >= 1
    /\ ExponentMark(body) # 0
          => /\ Unsigned(ExponentText(body)) # ""
             /\ AllDigits(Unsigned(ExponentText(body)))

RECURSIVE NatOf(_)
NatOf(s) ==
    IF s = "" THEN 0
    ELSE 10 * NatOf(SubSeq(s, 1, Len(s) - 1)) + DigitValue(Char(s, Len(s)))

Zero == [neg |-> FALSE, digits |-> "", exp |-> 0]

\* the decimal a valid unsigned text denotes (beyond eight digits the size of
\* the exponent no longer matters)
DecimalOf(body) ==
    LET all == IntegerDigits(body) \o FractionDigits(body)
        sig == StripLeft(all, {"0"})
        ex == ExponentText(body)
        d == StripLeft(Unsigned(ex), {"0"})
        n == IF Len(d) > 8 THEN 100000000 ELSE NatOf(d)
        exponent == IF ex # "" /\ Head(ex) = "-" THEN -n ELSE n
    IN  IF sig = "" THEN Zero
        ELSE [neg |-> FALSE, digits |-> StripRight(sig, {"0"}),
              exp |-> exponent + Len(IntegerDigits(body)) - (Len(all) - Len(sig))]

\* the nonnegative integer n as a float
Seconds(n) == DecimalOf(ToString(n))

\* the first position in lo..hi at which x and y differ (they do differ there)
RECURSIVE FirstDifference(_, _, _, _)
FirstDifference(x, y, lo, hi) ==
    IF lo = hi THEN lo
    ELSE IF SubSeq(x, lo, (lo + hi) \div 2) = SubSeq(y, lo, (lo + hi) \div 2)
    THEN FirstDifference(x, y, (lo + hi) \div 2 + 1, hi)
    ELSE FirstDifference(x, y, lo, (lo + hi) \div 2)

\* a < b: -1, a = b: 0, a > b: 1, for the magnitudes of two nonzero decimals
\* (no digit string ends in a zero, so a proper prefix of one is less than it)
Compare(a, b) ==
    LET x == a.digits
        y == b.digits
        n == IF Len(x) < Len(y) THEN Len(x) ELSE Len(y)
        i == FirstDifference(x, y, 1, n)
    IN  IF a.exp # b.exp THEN (IF a.exp > b.exp THEN 1 ELSE -1)
        ELSE IF SubSeq(x, 1, n) = SubSeq(y, 1, n)
        THEN (IF Len(x) = Len(y) THEN 0 ELSE IF Len(x) < Len(y) THEN -1 ELSE 1)
        ELSE IF DigitValue(Char(x, i)) > DigitValue(Char(y, i)) THEN 1 ELSE -1

\* 2^1024 - 2^970: from here on a decimal rounds to infinity
OverflowThreshold ==
    [neg |-> FALSE, exp |-> 309, digits |->
        "179769313486231580793728971405303415079934132710037826936173778980444968292764750946649017977587207096330286416692887910946555547851940402630657488671505820681908902000708383676273854845817711531764475730270069855571366959622842914819860834936475292719074168444365510704342711559699508093042880177904174497792"]
\* 2^-1075: up to here a decimal rounds to 0.0
UnderflowThreshold ==
    [neg |-> FALSE, exp |-> -323, digits |->
        "24703282292062327208828439643411068618252990130716238221279284125033775363510437593264991818081799618989828234772285886546332835517796989819938739800539093906315035659515570226392290858392449105184435931802849936536152500319370457678249219365623669863658480757001585769269903706311928279558551332927834338409351978015531246597263579574622766465272827220056374006485499977096599470454020828166226237857393450736339007967761930577506740176324673600968951340535537458516661134223766678604162159680461914467291840300530057530849048765391711386591646239524912623653881879636239373280423891018672348497668235089863388587925628302755995657524455507255189313690836254779186948667994968324049705821028513185451396213837722826145437693412532098591327667236328125"]

Finite(v) == [kind |-> "finite", val |-> v]
Inf(neg) == [kind |-> "inf", val |-> [Zero EXCEPT !.neg = neg]]
ValueError == [kind |-> "ValueError", val |-> Zero]

\* float(text)
ParseFloat(text) ==
    LET s == StripRight(StripLeft(text, WhiteSpace), WhiteSpace)
        neg == s # "" /\ Head(s) = "-"
        body == Unsigned(WithoutUnderscores(s))
        v == DecimalOf(body)
    IN  IF ~UnderscoresOk(s) THEN ValueError
        ELSE IF Len(body) <= 8 /\ Lower(body) \in {"inf", "infinity"} THEN Inf(neg)
        ELSE IF Len(body) <= 8 /\ Lower(body) = "nan" THEN [kind |-> "nan", val |-> Zero]
        ELSE IF ~ValidNumber(body) THEN ValueError
        ELSE IF v = Zero THEN Finite([Zero EXCEPT !.neg = neg])
        ELSE IF Compare(v, OverflowThreshold) >= 0 THEN Inf(neg)
        ELSE IF Compare(v, UnderflowThreshold) <= 0
        THEN Finite([Zero EXCEPT !.neg = neg])
        ELSE Finite([v EXCEPT !.neg = neg])

\* w <= 0 on floats: false for NaN and for +inf
LeqZero(w) ==
    \/ w.kind = "finite" /\ (w.val.digits = "" \/ w.val.neg)
    \/ w.kind = "inf" /\ w.val.neg

\* mutant: one retry too many
Reraise_off_by_one(status_code, n) == status_code # 429 \/ n > max_retries

\* `status_code != 429 or attempt >= max_retries`: the HTTPError is re-raised
Reraise(status_code, n) == status_code # 429 \/ n >= max_retries

\* float(retry_after_header) if retry_after_header else 0, ValueError -> 0
RetryAfterSeconds(retry_after_header) ==
    IF Falsy(retry_after_header) THEN Finite(Zero)
    ELSE IF ParseFloat(retry_after_header[1]).kind = "ValueError" THEN Finite(Zero)
    ELSE ParseFloat(retry_after_header[1])

\* mutant: the backoff exponent is off by one
WaitSeconds_late(retry_after_header, n) ==
    IF LeqZero(RetryAfterSeconds(retry_after_header)) THEN Finite(Seconds(Pow2(n + 1)))
    ELSE RetryAfterSeconds(retry_after_header)

\* the argument of time.sleep
WaitSeconds(retry_after_header, n) ==
    IF LeqZero(RetryAfterSeconds(retry_after_header)) THEN Finite(Seconds(Pow2(n)))
    ELSE RetryAfterSeconds(retry_after_header)

\* the least duration whose nanoseconds, as a float, no longer fit 64 bits: a
\* decimal above it reads as a float that time.sleep refuses
SleepOverflowThreshold ==
    [neg |-> FALSE, digits |-> "922337203685477542877197265625", exp |-> 10]

\* readings of the monotonic clock when time.sleep is entered, in whole seconds
\* since boot
ClockReadings == {1, 3600}

\* the least duration whose deadline, the clock reading plus the duration, is
\* beyond the 2^63 - 1 nanoseconds a deadline can hold: 9223372036.854775807
\* seconds less the clock reading (of at most 72036 seconds)
SleepDeadline(clock) ==
    [neg |-> FALSE, exp |-> 10,
     digits |-> "92233" \o SubSeq(ToString(172036 - clock), 2, 6) \o "854775807"]

\* time.sleep(w) entered at the clock reading `clock`: ValueError for NaN or a
\* negative duration, OverflowError for an infinite duration or one whose
\* nanoseconds are outside [-2^63, 2^63), OSError for a deadline the clock
\* cannot hold
SleepOutcome(w, clock) ==
    CASE w.kind = "nan" -> "ValueError"
      [] w.kind = "inf" -> "OverflowError"
      [] w.val.digits = "" -> "return"
      [] w.val.neg ->
            IF Compare(w.val, [neg |-> TRUE, exp |-> 10,
                               digits |-> "922337203685477733612060546875"]) >= 0
            THEN "OverflowError" ELSE "ValueError"
      [] Compare(w.val, SleepOverflowThreshold) > 0 -> "OverflowError"
      [] Compare(w.val, SleepDeadline(clock)) >= 0 -> "OSError"
      [] OTHER -> "return"

\* fetch_event_props: `except HTTPError`
EventPropsCatches(exception) == exception = "HTTPError"

(***************************************************************************)
(* Payloads the upstream API answers with.                                 *)
(***************************************************************************)
Outcome(name, price) == [name |-> Some(name), price |-> Some(price)]

H2HBook(title, home, away) ==
    [title |-> Some(title),
     markets |-> <<[key |-> Some("h2h"),
                    outcomes |-> <<Outcome("Home", home), Outcome("Away", away)>>]>>]

\* game number i: either BookA's home price and BookB's away price form an
\* arbitrage (+120 and +150), or the only book offers none
RawGame(i, with_arb) ==
    [id |-> i, home_team |-> "Home", away_team |-> "Away",
     bookmakers |-> IF with_arb
                    THEN <<H2HBook("BookA", 120, -150), H2HBook("BookB", -140, 150)>>
                    ELSE <<H2HBook("BookA", -110, -110)>>]

\* lists of up to MaxGames games in which every other game has an arbitrage
RawGamesChoices ==
    {[i \in 1..n |-> RawGame(i, (i % 2 = 1) = odd)] : n \in 0..MaxGames, odd \in BOOLEAN}

PropOutcome(side, player, line, price) ==
    [name |-> Some(side), description |-> Some(player), point |-> Some(line),
     price |-> Some(price)]

PropBook(title, over, under) ==
    [title |-> Some(title),
     markets |-> <<[key |-> Some("player_points"),
                    outcomes |-> <<PropOutcome("Over", "P", [repr |-> "25.5"], over),
                                   PropOutcome("Under", "P", [repr |-> "25.5"], under)>>]>>]

\* the payloads of an event: none, one with an arbitrage between BookA's Over
\* and BookB's Under (+120 and +150), one without
PropPayloads ==
    {EmptyDict,
     [bookmakers |-> <<PropBook("BookA", 120, -150), PropBook("BookB", -140, 150)>>],
     [bookmakers |-> <<PropBook("BookA", -110, -110)>>]}

(***************************************************************************)
(* Pipeline orchestrator (main.py) and fetch client (odds_fetcher.py) as   *)
(* transformations of the run state s, a record of the run variables.      *)
(***************************************************************************)
Cur ==
    [mode |-> mode, sport |-> sport, pc |-> pc, markets |-> markets,
     games_resp |-> games_resp, fetch_site |-> fetch_site,
     normalized_games |-> normalized_games, moneyline_opps |-> moneyline_opps,
     detect_calls |-> detect_calls, idx |-> idx, attempt |-> attempt,
     resps |-> resps, waits |-> waits, last_header |-> last_header,
     ret |-> ret, fate |-> fate,
     prop_requests |-> prop_requests, prop_request_errors |-> prop_request_errors,
     opportunities |-> opportunities, handed_ml |-> handed_ml,
     handed_prop |-> handed_prop, upserted |-> upserted, raised_by |-> raised_by]

Install(s) ==
    /\ mode' = s.mode /\ sport' = s.sport /\ pc' = s.pc /\ markets' = s.markets
    /\ games_resp' = s.games_resp /\ fetch_site' = s.fetch_site
    /\ normalized_games' = s.normalized_games /\ moneyline_opps' = s.moneyline_opps
    /\ detect_calls' = s.detect_calls /\ idx' = s.idx /\ attempt' = s.attempt
    /\ resps' = s.resps /\ waits' = s.waits /\ last_header' = s.last_header
    /\ ret' = s.ret /\ fate' = s.fate
    /\ prop_requests' = s.prop_requests
    /\ prop_request_errors' = s.prop_request_errors
    /\ opportunities' = s.opportunities /\ handed_ml' = s.handed_ml
    /\ handed_prop' = s.handed_prop /\ upserted' = s.upserted
    /\ raised_by' = s.raised_by

\* fetch_upcoming_games: the one request of the games fetch is issued
fetch_upcoming_games(s, site) ==
    [s EXCEPT !.pc = "games_req", !.fetch_site = Append(@, site)]

\* an exception leaves the run uncaught
Raise(s, site) == [s EXCEPT !.pc = "raised", !.raised_by = site]

\* fetch_prop_opportunities returns to its caller: fetch_and_process_props goes
\* on to upsert the prop opportunities, fetch_and_process the moneyline ones
ReturnFromProps(s) ==
    CASE s.mode = "props" -> [s EXCEPT !.pc = "upsert_prop"]
      [] s.mode = "all" -> [s EXCEPT !.pc = "upsert_moneyline"]
      [] OTHER -> [s EXCEPT !.pc = "done"]

\* fetch_event_props has returned `result`
EventReturns(s, result) ==
    [s EXCEPT !.ret = Some(result),
              !.pc = IF s.mode = "event_props" THEN "done" ELSE "event_done"]

\* mutant: the guard on an empty market list is left out
NoMarkets_never(mk) == FALSE

\* `if not markets: return {}, 0`
NoMarkets(mk) == mk = <<>>

\* fetch_event_props up to its first request
fetch_event_props(s, mk) ==
    IF NoMarkets(mk) THEN EventReturns(s, [payload |-> EmptyDict, errors |-> 0])
    ELSE [s EXCEPT !.pc = "prop_req", !.attempt = 0, !.resps = <<>>, !.waits = <<>>,
                   !.last_header = None, !.ret = None, !.prop_requests = @ + 1]

\* `for game_id in normalized_games`: the next iteration, or the return
NextEvent(s) ==
    IF s.idx < Len(s.normalized_games)
    THEN fetch_event_props([s EXCEPT !.idx = @ + 1], s.markets)
    ELSE ReturnFromProps(s)

\* fetch_prop_opportunities from `opportunities = []` on
PropPass(s, games) ==
    LET t == [s EXCEPT !.normalized_games = games,
                       !.markets = get_prop_markets(s.sport),
                       !.opportunities = <<>>, !.prop_request_errors = 0, !.idx = 0]
    IN  IF t.markets # <<>> THEN NextEvent(t) ELSE ReturnFromProps(t)

\* mutant: the games are fetched again whatever the caller passed
NeedsGamesFetch_always(games_arg) == TRUE

\* `if normalized_games is None`
NeedsGamesFetch(games_arg) == games_arg = None

fetch_prop_opportunities(s, games_arg) ==
    IF NeedsGamesFetch(games_arg) THEN fetch_upcoming_games(s, "props")
    ELSE PropPass(s, games_arg[1])

\* the games request is answered by r
OnGamesResponse(s, r) ==
    LET t == [s EXCEPT !.games_resp = Append(@, Summary(r))]
        site == s.fetch_site[Len(s.fetch_site)]
        games == normalize_moneyline_odds(r.payload)
        u == [t EXCEPT !.normalized_games = games,
                       !.moneyline_opps = detect_moneyline_arbitrage(games),
                       !.detect_calls = @ + 1]
    IN  IF RequestOutcome(r) # "return" THEN Raise(t, "games_fetch")
        ELSE IF site = "props" THEN PropPass(t, games)
        ELSE IF s.mode = "moneyline" THEN [u EXCEPT !.pc = "upsert_moneyline"]
             ELSE fetch_prop_opportunities(u, Some(games))

\* an exception leaves _request_with_429_retry
Propagate(s, exception) ==
    IF EventPropsCatches(exception)
    THEN EventReturns(s, [payload |-> EmptyDict, errors |-> 1])
    ELSE Raise(s, "prop_fetch")

\* the final response of an event's fetch is recorded
Final(s, r) ==
    [s EXCEPT !.fate = Append(@, [kind |-> r.kind, status |-> r.status,
                                  payload |-> r.payload])]

\* the prop request in flight is answered by r: _request_with_429_retry up to
\* time.sleep, and the try/except of fetch_event_props
OnPropResponse(s, r) ==
    LET t == [s EXCEPT !.resps = Append(@, Summary(r)), !.last_header = r.header]
    IN  IF RequestOutcome(r) = "return"
        THEN EventReturns(Final(t, r), [payload |-> r.payload, errors |-> 0])
        ELSE IF RequestOutcome(r) = "HTTPError" /\ ~Reraise(r.status, s.attempt)
        THEN [t EXCEPT !.pc = "sleep"]
        ELSE Propagate(Final(t, r), RequestOutcome(r))

\* time.sleep(wait_seconds), entered at the clock reading `clock`, ends: the
\* next request is issued, or the exception of time.sleep leaves the call
OnSleepEnd(s, clock) ==
    LET w == WaitSeconds(s.last_header, s.attempt)
    IN  IF SleepOutcome(w, clock) = "return"
        THEN [s EXCEPT !.waits = Append(@, w.val), !.attempt = @ + 1,
                       !.prop_requests = @ + 1, !.pc = "prop_req"]
        ELSE Propagate(Final(s, ErrorResponse(429, s.last_header)),
                       SleepOutcome(w, clock))

\* the opportunities whose profit is at least min_profit_percent
Qualifying(opps) ==
    SelectSeq(opps, LAMBDA o : o.profit_percent >= min_profit_percent)

\* the table row of an opportunity (its detected_at timestamp is left out)
_format_moneyline_opportunity(event) ==
    [game_id |-> event.game_id, home_team |-> event.home_team,
     away_team |-> event.away_team, over_book |-> event.over_book,
     under_book |-> event.under_book, over_odds |-> event.over_odds,
     under_odds |-> event.under_odds, profit_percent |-> event.profit_percent]

_format_prop_opportunity(event) == event

\* upsert_moneyline_opportunities up to its round trip to the database: the
\* rows are built, and without a row the function returns at once
upsert_moneyline_opportunities(s) ==
    LET t == [s EXCEPT !.handed_ml = Some(s.moneyline_opps)]
    IN  IF Qualifying(s.moneyline_opps) # <<>> THEN [t EXCEPT !.pc = "execute_moneyline"]
        ELSE IF s.mode = "moneyline" THEN [t EXCEPT !.pc = "done"]
        ELSE [t EXCEPT !.pc = "upsert_prop"]

\* upsert_prop_opportunities up to its round trip to the database
upsert_prop_opportunities(s) ==
    LET t == [s EXCEPT !.handed_prop = Some(s.opportunities)]
    IN  IF Qualifying(s.opportunities) # <<>> THEN [t EXCEPT !.pc = "execute_prop"]
        ELSE [t EXCEPT !.pc = "done"]

\* supabase.table(table).upsert(rows, ...).execute() and the return of the
\* rows; `executed` tells whether the round trip to the database succeeds
Upsert(s, executed) ==
    LET moneyline == s.pc = "execute_moneyline"
        kept == Qualifying(IF moneyline THEN s.moneyline_opps ELSE s.opportunities)
        sent == [i \in 1..Len(kept) |->
                    IF moneyline THEN _format_moneyline_opportunity(kept[i])
                    ELSE _format_prop_opportunity(kept[i])]
        table == IF moneyline THEN MONEYLINE_ARBITRAGE_TABLE ELSE PROP_ARBITRAGE_TABLE
    IN  IF ~executed THEN Raise(s, "storage")
        ELSE [s EXCEPT !.upserted = Append(@, [table |-> table, rows |-> sent]),
                       !.pc = IF moneyline /\ s.mode # "moneyline"
                              THEN "upsert_prop" ELSE "done"]

\* upsert_arbitrage_opportunities up to its first upsert: the rows are split by
\* market type
upsert_arbitrage_opportunities(s, opps) ==
    [s EXCEPT !.mode = "upsert",
              !.moneyline_opps = SelectSeq(opps, LAMBDA o : o.market_type = "h2h"),
              !.opportunities = SelectSeq(opps, LAMBDA o : o.market_type # "h2h"),
              !.pc = "upsert_moneyline"]

RECURSIVE AttachTeams(_, _, _)
AttachTeams(prop_opps, home_team, away_team) ==
    IF prop_opps = <<>> THEN <<>>
    ELSE <<[Head(prop_opps) EXCEPT !.home_team = Some(home_team),
                                   !.away_team = Some(away_team)]>>
         \o AttachTeams(Tail(prop_opps), home_team, away_team)

\* the opportunities one event contributes
EventOpps(game, raw_props) ==
    AttachTeams(detect_prop_arbitrage(normalize_prop_odds(game.game_id, raw_props)),
                game.home_team, game.away_team)

\* the loop body of fetch_prop_opportunities after fetch_event_props returned
OnEventReturned(s) ==
    LET raw_props == s.ret[1].payload
        game == s.normalized_games[s.idx].v
        t == [s EXCEPT !.prop_request_errors = @ + s.ret[1].errors]
    IN  IF raw_props = EmptyDict THEN NextEvent(t)
        ELSE NextEvent([t EXCEPT !.opportunities = @ \o EventOpps(game, raw_props),
                                 !.detect_calls = @ + 1])

Modes == {"moneyline", "props", "all", "prop_opps"}
Sports == {"nba", "nhl"}

\* mixed lists of opportunities: a moneyline row and a prop row that qualify,
\* and a prop row below the minimum profit
MixedOpportunities ==
    LET found(profit) == [profit_percent |-> profit, over_book |-> "BookA",
                          under_book |-> "BookB", over_odds |-> 120, under_odds |-> 150]
        choice == {Row(1, "h2h", None, None, Some("Home"), Some("Away"), found(14545)),
                   Row(1, "player_points", Some("P"), Some([repr |-> "25.5"]), Some("Home"),
                       Some("Away"), found(4545)),
                   Row(2, "player_points", Some("P"), Some([repr |-> "25.5"]), Some("Home"),
                       Some("Away"), found(1500))}
    IN  {<<>>} \cup {<<a>> : a \in choice} \cup {<<a, b>> : a \in choice, b \in choice}

(***************************************************************************)
(* Actions of a pipeline run.                                              *)
(***************************************************************************)
\* one of the pipelines is started for a sport
Start ==
    /\ pc = "idle"
    /\ \E m \in Modes, sp \in Sports :
          LET s == [Cur EXCEPT !.mode = m, !.sport = sp]
          IN  Install(IF m = "prop_opps" THEN fetch_prop_opportunities(s, None)
                      ELSE fetch_upcoming_games(s, "moneyline"))
    /\ UNCHANGED <<arb_vars, norm_vars>>

\* fetch_event_props is called on its own
StartEvent ==
    /\ pc = "idle"
    /\ \E sp \in Sports, mk \in {<<>>, <<"player_points">>} :
          Install(fetch_event_props([Cur EXCEPT !.mode = "event_props", !.sport = sp,
                                                !.markets = mk], mk))
    /\ UNCHANGED <<arb_vars, norm_vars>>

\* upsert_arbitrage_opportunities is called on its own
StartUpsert ==
    /\ pc = "idle"
    /\ \E opps \in MixedOpportunities : Install(upsert_arbitrage_opportunities(Cur, opps))
    /\ UNCHANGED <<arb_vars, norm_vars>>

GamesResponse ==
    /\ pc = "games_req"
    /\ \E r \in {OkResponse(g) : g \in RawGamesChoices} \cup ErrorResponses
                \cup {NoResponse} :
           Install(OnGamesResponse(Cur, r))
    /\ UNCHANGED <<arb_vars, norm_vars>>

PropResponse ==
    /\ pc = "prop_req"
    /\ \E r \in {OkResponse(p) : p \in PropPayloads} \cup ErrorResponses
                \cup {NoResponse} :
           Install(OnPropResponse(Cur, r))
    /\ UNCHANGED <<arb_vars, norm_vars>>

\* time.sleep ends
SleepEnd ==
    /\ pc = "sleep"
    /\ \E clock \in ClockReadings : Install(OnSleepEnd(Cur, clock))
    /\ UNCHANGED <<arb_vars, norm_vars>>

EventReturned ==
    /\ pc = "event_done"
    /\ Install(OnEventReturned(Cur))
    /\ UNCHANGED <<arb_vars, norm_vars>>

\* a storage function is entered
UpsertMoneyline ==
    /\ pc = "upsert_moneyline"
    /\ Install(upsert_moneyline_opportunities(Cur))
    /\ UNCHANGED <<arb_vars, norm_vars>>

UpsertProps ==
    /\ pc = "upsert_prop"
    /\ Install(upsert_prop_opportunities(Cur))
    /\ UNCHANGED <<arb_vars, norm_vars>>

\* the round trip of the storage function in progress ends
Execute ==
    /\ pc \in {"execute_moneyline", "execute_prop"}
    /\ \E executed \in BOOLEAN : Install(Upsert(Cur, executed))
    /\ UNCHANGED <<arb_vars, norm_vars>>

RunInit ==
    /\ mode = "idle" /\ sport = "" /\ pc = "idle" /\ markets = <<>>
    /\ games_resp = <<>> /\ fetch_site = <<>> /\ normalized_games = <<>>
    /\ moneyline_opps = <<>> /\ detect_calls = 0 /\ idx = 0 /\ attempt = 0
    /\ resps = <<>> /\ waits = <<>> /\ last_header = None /\ ret = None
    /\ fate = <<>>
    /\ prop_requests = 0 /\ prop_request_errors = 0 /\ opportunities = <<>>
    /\ handed_ml = None /\ handed_prop = None /\ upserted = <<>>
    /\ raised_by = "none"

(***************************************************************************)
(* The detector on its own: an ordered dict of bookmakers is built one     *)
(* book at a time, each offering side A (home / Over), side B (away /      *)
(* Under) or both at American prices; then the best price of each side is  *)
(* selected and the pair is evaluated.                                     *)
(***************************************************************************)
OptionalOdds == {None} \cup {Some(o) : o \in {-150, -110, -50, 50, 120, 150}}
BookNames == <<"BookA", "BookB", "BookC", "BookD">>

SideA(k) == IF k = "h2h" THEN "Home" ELSE "Over"
SideB(k) == IF k = "h2h" THEN "Away" ELSE "Under"

\* the entry of one book as the normalizers build it
BookSides(k, odds_a, odds_b) ==
    (IF odds_a = None THEN <<>> ELSE <<[k |-> SideA(k), v |-> PriceEntry(odds_a[1])]>>)
    \o (IF odds_b = None THEN <<>> ELSE <<[k |-> SideB(k), v |-> PriceEntry(odds_b[1])]>>)

\* the normalized game, and the normalized props, that hold `books`
GameOf(bks) == [game_id |-> 1, home_team |-> "Home", away_team |-> "Away", books |-> bks]
PropsOf(bks) ==
    <<[k |-> 1,
       v |-> <<[k |-> "player_points",
                v |-> <<[k |-> "P|25",
                         v |-> [player |-> "P", line |-> 25, books |-> bks]]>>]>>]>>

AddBook ==
    /\ phase = "build"
    /\ Len(books) < MaxBooks
    /\ \E odds_a \in OptionalOdds, odds_b \in OptionalOdds :
          /\ odds_a # None \/ odds_b # None
          /\ books' = DictSet(books, BookNames[Len(books) + 1],
                              BookSides(kind, odds_a, odds_b))
    /\ UNCHANGED <<kind, phase, best_a, best_b, arb, rows, run_vars, norm_vars>>

SelectBest ==
    /\ phase = "build"
    /\ phase' = "selected"
    /\ best_a' = IF kind = "h2h" THEN _best_price_for_team(GameOf(books), "Home")
                 ELSE _best_prop_side(books, "Over")
    /\ best_b' = IF kind = "h2h" THEN _best_price_for_team(GameOf(books), "Away")
                 ELSE _best_prop_side(books, "Under")
    /\ UNCHANGED <<kind, books, arb, rows, run_vars, norm_vars>>

Evaluate ==
    /\ phase = "selected"
    /\ phase' = "evaluated"
    /\ arb' = detect_two_way_arbitrage(best_a, best_b)
    /\ rows' = IF kind = "h2h"
               THEN detect_moneyline_arbitrage(<<[k |-> 1, v |-> GameOf(books)]>>)
               ELSE detect_prop_arbitrage(PropsOf(books))
    /\ UNCHANGED <<kind, books, best_a, best_b, run_vars, norm_vars>>

ArbIdle ==
    /\ kind = "h2h" /\ books = <<>> /\ phase = "idle"
    /\ best_a = None /\ best_b = None /\ arb = None /\ rows = <<>>

NormIdle == raw_bookmakers = <<>> /\ norm_phase = "idle" /\ norm_result = <<>>

Init == RunInit /\ ArbIdle /\ NormIdle

Next ==
    \/ Start \/ StartEvent \/ StartUpsert \/ GamesResponse \/ PropResponse
    \/ SleepEnd \/ EventReturned \/ UpsertMoneyline \/ UpsertProps \/ Execute

Spec == Init /\ [][Next]_vars

\* the detector exercised on its own
InitArb ==
    /\ RunInit /\ NormIdle
    /\ kind \in {"h2h", "prop"} /\ books = <<>> /\ phase = "build"
    /\ best_a = None /\ best_b = None /\ arb = None /\ rows = <<>>
NextArb == AddBook \/ SelectBest \/ Evaluate
SpecArb == InitArb /\ [][NextArb]_vars

(***************************************************************************)
(* The moneyline normalizer on its own: the bookmakers of one raw game     *)
(* arrive one at a time, each with or without a usable name, with or       *)
(* without an h2h market, and with outcomes that may lack their team name  *)
(* or their price; then the game is normalized.  As in the upstream feed,  *)
(* the bookmakers of a game have distinct names and keys, a bookmaker has  *)
(* at most one h2h market and a market at most one outcome per team.       *)
(***************************************************************************)
\* which markets a raw bookmaker carries
MarketShapes == {"h2h", "spreads_then_h2h", "spreads_only", "no_markets",
                 "h2h_without_outcomes"}

\* the name fields of the i-th raw bookmaker
RawName(shape, i) ==
    CASE shape = "title" -> [title |-> Some(BookNames[i]), key |-> Some("key")]
      [] shape = "key_only" -> [key |-> Some(BookNames[i])]
      [] shape = "null_title" -> [title |-> None, key |-> Some(BookNames[i])]
      [] shape = "empty_title" -> [title |-> Some("")]
      [] OTHER -> EmptyDict

\* one raw outcome
RawOutcome(shape, team, price) ==
    CASE shape = "ok" -> <<Outcome(team, price)>>
      [] shape = "no_name" -> <<[price |-> Some(price)]>>
      [] shape = "null_name" -> <<[name |-> None, price |-> Some(price)]>>
      [] shape = "no_price" -> <<[name |-> Some(team)]>>
      [] shape = "null_price" -> <<[name |-> Some(team), price |-> None]>>
      [] OTHER -> <<>>

\* the market list of the i-th raw bookmaker, which quotes its own prices
RawMarkets(shape, home, away, i) ==
    LET outcomes == RawOutcome(home, "Home", -110 - 10 * i)
                    \o RawOutcome(away, "Away", 100 + 10 * i)
        h2h == [key |-> Some("h2h"), outcomes |-> outcomes]
        spreads == [key |-> Some("spreads"),
                    outcomes |-> <<Outcome("Home", -105), Outcome("Away", -115)>>]
    IN  CASE shape = "h2h" -> <<h2h>>
          [] shape = "spreads_then_h2h" -> <<spreads, h2h>>
          [] shape = "spreads_only" -> <<spreads>>
          [] OTHER -> <<[key |-> Some("h2h")]>>

\* the i-th raw bookmaker
RawBookmaker(name, shape, home, away, i) ==
    IF shape = "no_markets" THEN RawName(name, i)
    ELSE RawName(name, i) @@ ("markets" :> RawMarkets(shape, home, away, i))

AddBookmaker ==
    /\ norm_phase = "build"
    /\ Len(raw_bookmakers) < MaxBooks
    /\ \E name \in {"title", "key_only", "null_title", "empty_title", "no_name"},
          shape \in MarketShapes, home \in {"ok", "no_name"},
          away \in {"ok", "null_name", "no_price", "null_price"} :
          /\ shape \in {"spreads_only", "no_markets", "h2h_without_outcomes"}
                => home = "ok" /\ away = "ok"
          /\ raw_bookmakers' =
                Append(raw_bookmakers,
                       RawBookmaker(name, shape, home, away, Len(raw_bookmakers) + 1))
    /\ UNCHANGED <<norm_phase, norm_result, run_vars, arb_vars>>

Normalize ==
    /\ norm_phase = "build"
    /\ norm_phase' = "normalized"
    /\ norm_result' = normalize_moneyline_odds(<<[id |-> 1, home_team |-> "Home",
                                                   away_team |-> "Away",
                                                   bookmakers |-> raw_bookmakers]>>)
    /\ UNCHANGED <<raw_bookmakers, run_vars, arb_vars>>

InitNorm ==
    /\ RunInit /\ ArbIdle
    /\ raw_bookmakers = <<>> /\ norm_phase = "build" /\ norm_result = <<>>
NextNorm == AddBookmaker \/ Normalize
SpecNorm == InitNorm /\ [][NextNorm]_vars

(***************************************************************************)
(* Properties of the fetch client and the orchestrator, checked under Spec *)
(***************************************************************************)
\* the last response of the current (or last) _request_with_429_retry call
LastResp == resps[Len(resps)]
\* the call has ended: no request of it is in flight and it is not waiting
CallEnded == resps # <<>> /\ pc \notin {"prop_req", "sleep"}
\* fetch_event_props turned the call's HTTPError into a counted skip
CountedSkip == ret = Some([payload |-> EmptyDict, errors |-> 1])

\* C1: within one _request_with_429_retry call a further request is issued only
\* after a 429 and only while fewer than max_retries retries were made, so at
\* most max_retries + 1 requests are issued; the first successful payload is
\* returned; the first non-429 error status is raised with no wait and no
\* retry; a 429 received after max_retries retries is raised.
C1_RetryBounded ==
    /\ attempt = Len(waits) /\ attempt <= max_retries
    /\ pc = "prop_req" => Len(resps) = attempt
    /\ Len(resps) <= max_retries + 1
    /\ \A i \in 1..(Len(resps) - 1) : resps[i].status = 429
    /\ (resps # <<>> /\ LastResp.kind = "ok") =>
          /\ pc # "prop_req"
          /\ ret = Some([payload |-> fate[Len(fate)].payload, errors |-> 0])
    /\ (resps # <<>> /\ LastResp.kind = "http" /\ LastResp.status # 429) =>
          /\ pc # "prop_req" /\ CountedSkip
          /\ Len(waits) = Len(resps) - 1
    /\ (resps # <<>> /\ LastResp.status = 429 /\ Len(resps) = max_retries + 1) =>
          /\ pc # "prop_req" /\ CountedSkip
          /\ Len(waits) = max_retries

\* C1 witness: max_retries retries were made and the next 429 was raised
C1_Witness ==
    /\ Len(resps) = max_retries + 1 /\ LastResp.status = 429
    /\ CountedSkip /\ prop_requests = max_retries + 1

\* the duration the policy prescribes for a Retry-After header `h` before retry
\* number n + 1: the header's value when it is a positive number, else 2^n
PrescribedWait(h, n) ==
    CASE h = Some("2") -> Seconds(2)
      [] h = Some("3") -> Seconds(3)
      [] h = Some(" 1.5") -> [neg |-> FALSE, digits |-> "15", exp |-> 1]
      [] h = Some("9223372000") -> [neg |-> FALSE, digits |-> "9223372", exp |-> 10]
      [] OTHER -> Seconds(Pow2(n))

\* C2: the wait before each retry is the Retry-After value when the header is
\* present, numeric and positive, and otherwise 2^attempt, attempt being the
\* number of retries already made (1, 2, 4 for header-less 429s).
C2_WaitDuration ==
    (pc = "prop_req" /\ waits # <<>>) =>
        waits[Len(waits)] = PrescribedWait(last_header, Len(waits) - 1)

\* C2 witness: three retries, the second after Retry-After: 3, the others
\* after 429s without a header
C2_Witness == pc = "prop_req" /\ waits = <<Seconds(1), Seconds(3), Seconds(4)>> /\ last_header = None

\* C3: a 429 answer to any upstream request, the games fetch as well as a
\* per-event prop fetch, is retried per the retry policy and becomes a failure
\* only after max_retries retries; a single 429 on the games fetch followed by
\* a success does not fail the run.
C3_GamesFetchRetried ==
    /\ (raised_by = "games_fetch" /\ games_resp[Len(games_resp)].status = 429) =>
          Len(games_resp) = max_retries + 1
    /\ (CallEnded /\ LastResp.status = 429) =>
          (attempt = max_retries /\ Len(resps) = max_retries + 1)

\* the events of `fs` whose fetch finally failed
RECURSIVE FailedCount(_)
FailedCount(fs) ==
    IF fs = <<>> THEN 0
    ELSE (IF Head(fs).kind = "ok" THEN 0 ELSE 1) + FailedCount(Tail(fs))

\* the opportunities of the successfully fetched events among the first n
RECURSIVE OppsOfFetched(_)
OppsOfFetched(n) ==
    IF n = 0 THEN <<>>
    ELSE OppsOfFetched(n - 1)
         \o (IF fate[n].kind = "ok" /\ fate[n].payload # EmptyDict
             THEN EventOpps(normalized_games[n].v, fate[n].payload) ELSE <<>>)

\* fetch_prop_opportunities has returned
ReturnedFromProps ==
    \/ pc \in {"upsert_moneyline", "execute_moneyline", "upsert_prop", "execute_prop", "done"}
    \/ raised_by = "storage"

\* what fetch_prop_opportunities returns when every game was visited
C4_TolerantResult ==
    (ReturnedFromProps /\ mode \in {"props", "all", "prop_opps"} /\ markets # <<>>) =>
        /\ Len(fate) = Len(normalized_games)
        /\ prop_request_errors = FailedCount(fate)
        /\ opportunities = OppsOfFetched(Len(fate))

\* C4: no failure of a per-event prop fetch propagates out of the prop
\* pipeline; every game is visited, the error count is the number of events
\* whose fetch finally failed and the opportunities of the fetched events are
\* returned.
C4_PropFailuresTolerated ==
    /\ mode \in {"props", "all", "prop_opps"} => raised_by # "prop_fetch"
    /\ C4_TolerantResult

\* C5: when the games fetch fails the run ends with that failure: no prop
\* request is issued, nothing is detected, nothing is handed to storage.
C5_GamesFailureFatal ==
    (games_resp # <<>> /\ games_resp[Len(games_resp)].kind # "ok") =>
        /\ pc = "raised" /\ raised_by = "games_fetch"
        /\ prop_requests = 0 /\ detect_calls = 0
        /\ moneyline_opps = <<>> /\ opportunities = <<>>
        /\ handed_ml = None /\ handed_prop = None

\* C5 witness: a combined run whose games fetch was answered by an error status
C5_Witness ==
    /\ mode = "all" /\ pc = "raised"
    /\ games_resp # <<>> /\ games_resp[1].status = 500

\* C6: a combined run issues exactly one games fetch, made by the moneyline
\* pass; fetch_prop_opportunities fetches games only when it is called
\* without normalized games.
C6_OneGamesFetch ==
    /\ mode \in {"all", "props", "moneyline"} => fetch_site = <<"moneyline">>
    /\ mode = "prop_opps" => fetch_site = <<"props">>
    /\ mode = "event_props" => fetch_site = <<>>

\* C6 witness: a combined run completed its prop pass over several games
C6_Witness ==
    /\ mode = "all" /\ pc = "done" /\ Len(normalized_games) >= 2
    /\ Len(fate) = Len(normalized_games) /\ Len(games_resp) = 1

\* the sport has no configured prop market once its alias is resolved
NoConfiguredMarkets(sp) == resolve_sport_key(sp) \notin DOMAIN PROP_MARKETS_BY_SPORT

\* C7: with an empty configured market list a prop pipeline run issues no
\* per-event request and returns no opportunity and no error; fetch_event_props
\* with an empty market list returns ({}, 0) without issuing a request.
C7_EmptyMarkets ==
    /\ (mode \in Modes /\ NoConfiguredMarkets(sport)) =>
          /\ prop_requests = 0 /\ opportunities = <<>> /\ prop_request_errors = 0
          /\ handed_prop \in {None, Some(<<>>)}
          /\ (pc = "done" /\ mode \in {"props", "all"}) => handed_prop = Some(<<>>)
    /\ (mode = "event_props" /\ markets = <<>>) =>
          /\ pc = "done" /\ prop_requests = 0
          /\ ret = Some([payload |-> EmptyDict, errors |-> 0])

\* C7 witness: a prop pipeline run over several games of a sport without
\* configured markets has completed
C7_Witness ==
    /\ mode = "props" /\ sport = "nhl" /\ pc = "done"
    /\ Len(normalized_games) >= 2 /\ handed_prop = Some(<<>>)

(***************************************************************************)
(* Properties of the detector, checked under SpecArb                       *)
(***************************************************************************)
\* p + q < 1, and p + q = 1, for two fractions
SumBelowOne(p, q) == p[1] * q[2] + q[1] * p[2] < p[2] * q[2]
SumIsOne(p, q) == p[1] * q[2] + q[1] * p[2] = p[2] * q[2]

\* C8: detect_two_way_arbitrage emits an opportunity iff both sides are
\* present and their implied probabilities sum to strictly less than 1 (a sum
\* of exactly 1 is no arbitrage); the legs of every row a detection function
\* emits have implied probabilities that sum to less than 1.
C8_EmitsIffBelowOne ==
    phase = "evaluated" =>
        /\ arb # None <=>
              /\ best_a # None /\ best_b # None
              /\ SumBelowOne(best_a[1].implied_prob, best_b[1].implied_prob)
        /\ \A i \in 1..Len(rows) :
              SumBelowOne(odds_to_probability(rows[i].over_odds),
                          odds_to_probability(rows[i].under_odds))

\* C8 witness: both sides are present, their implied probabilities sum to
\* exactly 1 and nothing is emitted
C8_Witness ==
    /\ phase = "evaluated" /\ best_a # None /\ best_b # None
    /\ SumIsOne(best_a[1].implied_prob, best_b[1].implied_prob)
    /\ arb = None /\ rows = <<>>

\* the positions of the bookmakers that offer `side`, and the odds they offer
Offering(side) == {i \in 1..Len(books) : DictHas(books[i].v, side)}
Offered(i, side) == DictGet(books[i].v, side)

\* `best` is the first of the bookmakers offering `side` at the greatest odds,
\* or absent when no bookmaker offers it
FirstGreatest(best, side) ==
    IF Offering(side) = {} THEN best = None
    ELSE /\ best # None
         /\ \E i \in Offering(side) :
               /\ best[1] = [book |-> books[i].k, odds |-> Offered(i, side).odds,
                             implied_prob |-> Offered(i, side).implied_prob]
               /\ \A j \in Offering(side) :
                     /\ Offered(j, side).odds <= Offered(i, side).odds
                     /\ Offered(j, side).odds = Offered(i, side).odds => i <= j

\* C9: best-price selection returns the entry with the greatest odds among the
\* bookmakers offering the side, the first of them in iteration order on a
\* tie, and absence exactly when no bookmaker offers the side.
C9_FirstGreatestOdds ==
    phase \in {"selected", "evaluated"} =>
        /\ FirstGreatest(best_a, SideA(kind))
        /\ FirstGreatest(best_b, SideB(kind))

\* C9 witness: two bookmakers tie on the greatest odds of side A, the first
\* is selected, and no bookmaker offers side B
C9_Witness ==
    /\ phase = "selected" /\ Len(books) >= 2
    /\ Offering(SideA(kind)) = {1, 2} /\ Offering(SideB(kind)) = {}
    /\ Offered(1, SideA(kind)).odds = Offered(2, SideA(kind)).odds
    /\ best_a # None /\ best_a[1].book = BookNames[1] /\ best_b = None

\* every price entry held by the bookmakers
Entries ==
    UNION {{Offered(i, side) : i \in Offering(side)}
           : side \in {SideA(kind), SideB(kind)}}

\* `best` has the least implied probability among the offers of `side`
LeastImplied(best, side) ==
    best # None =>
        \A j \in Offering(side) :
            ProbLeq(best[1].implied_prob, Offered(j, side).implied_prob)

\* C10 as stated: for any two nonzero integer prices a > b the implied
\* probability of a is at most that of b, so the selected entry has the least
\* implied probability among the bookmakers offering the side.
C10_GreaterOddsNeverWorse ==
    /\ \A e1 \in Entries, e2 \in Entries :
          e1.odds > e2.odds => ProbLeq(e1.implied_prob, e2.implied_prob)
    /\ phase \in {"selected", "evaluated"} =>
          /\ LeastImplied(best_a, SideA(kind))
          /\ LeastImplied(best_b, SideB(kind))

\* a price in the range of American odds: at least 100 in absolute value
InAmericanRange(odds) == Abs(odds) >= 100
AllInRange(side) == \A j \in Offering(side) : InAmericanRange(Offered(j, side).odds)

\* C10 amended: for any two prices a > b of absolute value at least 100 the
\* implied probability of a is at most that of b, so the selected entry has
\* the least implied probability among the bookmakers offering the side
\* whenever every price offered for that side has absolute value at least 100.
C10_GreaterOddsNeverWorseInRange ==
    /\ \A e1 \in Entries, e2 \in Entries :
          (InAmericanRange(e1.odds) /\ InAmericanRange(e2.odds) /\ e1.odds > e2.odds)
              => ProbLeq(e1.implied_prob, e2.implied_prob)
    /\ phase \in {"selected", "evaluated"} =>
          /\ AllInRange(SideA(kind)) => LeastImplied(best_a, SideA(kind))
          /\ AllInRange(SideB(kind)) => LeastImplied(best_b, SideB(kind))

\* C10 witness: side A is offered at a favorite's price and at an underdog's
\* price, both in range, and the underdog's price is selected
C10_Witness ==
    /\ phase = "selected" /\ AllInRange(SideA(kind))
    /\ \E i \in Offering(SideA(kind)), j \in Offering(SideA(kind)) :
          /\ Offered(i, SideA(kind)).odds < 0 /\ Offered(j, SideA(kind)).odds > 0
          /\ best_a = Some([book |-> books[j].k, odds |-> Offered(j, SideA(kind)).odds,
                            implied_prob |-> Offered(j, SideA(kind)).implied_prob])
          /\ ProbLess(best_a[1].implied_prob, Offered(i, SideA(kind)).implied_prob)

\* one bookmaker holds the best price of both opposing sides
SameBookBest == best_a # None /\ best_b # None /\ best_a[1].book = best_b[1].book

\* C11: the two legs need not come from different bookmakers: when a single
\* bookmaker holds the best price on both opposing sides of a game or of a prop
\* player-line and the two implied probabilities sum to less than 1, exactly one
\* opportunity is emitted for it, and its over_book equals its under_book (that
\* bookmaker).
C11_SameBookEmitted ==
    (phase = "evaluated" /\ SameBookBest
        /\ SumBelowOne(best_a[1].implied_prob, best_b[1].implied_prob))
    => /\ arb # None
       /\ arb[1].over_book = best_a[1].book
       /\ arb[1].under_book = arb[1].over_book
       /\ Len(rows) = 1
       /\ rows[1].over_book = best_a[1].book
       /\ rows[1].under_book = rows[1].over_book
       /\ rows[1].over_odds = best_a[1].odds
       /\ rows[1].under_odds = best_b[1].odds

\* a second bookmaker is present, yet one bookmaker is best on both sides with a
\* sum below 1, and the detector has run
C11_Witness ==
    /\ phase = "evaluated" /\ SameBookBest /\ Len(books) >= 2
    /\ SumBelowOne(best_a[1].implied_prob, best_b[1].implied_prob)
    /\ rows # <<>>

(***************************************************************************)
(* Properties of the moneyline normalizer, checked under SpecNorm          *)
(***************************************************************************)
\* the h2h markets of a raw bookmaker
H2HMarketsOf(b) ==
    LET mk == Get(b, "markets", <<>>)
    IN  {j \in 1..Len(mk) : Get(mk[j], "key", None) = Some("h2h")}
\* the outcomes of a raw bookmaker's h2h market, in order
H2HOutcomesOf(b) ==
    IF H2HMarketsOf(b) = {} THEN <<>>
    ELSE Get(b.markets[CHOOSE j \in H2HMarketsOf(b) : TRUE], "outcomes", <<>>)
\* the positions of the outcomes that carry both a team name and a price
ValidOutcomes(b) ==
    {j \in 1..Len(H2HOutcomesOf(b)) :
        /\ Get(H2HOutcomesOf(b)[j], "name", None) # None
        /\ Get(H2HOutcomesOf(b)[j], "price", None) # None}
\* the raw bookmaker has a usable name
HasName(b) ==
    IF "title" \in DOMAIN b THEN b.title \notin {None, Some("")}
    ELSE "key" \in DOMAIN b /\ b.key \notin {None, Some("")}
\* the raw bookmakers that have a name and an h2h market with a valid outcome
Retained ==
    {i \in 1..Len(raw_bookmakers) :
        /\ HasName(raw_bookmakers[i])
        /\ H2HMarketsOf(raw_bookmakers[i]) # {}
        /\ ValidOutcomes(raw_bookmakers[i]) # {}}
\* the books of the normalized game
NormalizedBooks == DictGet(norm_result, 1).books

\* C12: in normalize_moneyline_odds skipping is per bookmaker and per outcome and
\* never drops sibling data: a bookmaker with no usable name or with no h2h
\* market is absent from the game's normalized books, an outcome missing its team
\* name or its price is absent from its bookmaker's entry, and every other
\* bookmaker that has a name and an h2h market with a valid outcome is present,
\* in arrival order, with exactly its valid outcomes and their prices.
C12_SkipsNeverDropSiblings ==
    norm_phase = "normalized" =>
        /\ Len(norm_result) = 1
        /\ Len(NormalizedBooks) = Cardinality(Retained)
        /\ \A e \in 1..Len(NormalizedBooks) :
               \E i \in Retained : NormalizedBooks[e].k = BookNames[i]
        /\ \A i \in 1..Len(raw_bookmakers) :
               (~HasName(raw_bookmakers[i]) \/ H2HMarketsOf(raw_bookmakers[i]) = {})
                   => ~DictHas(NormalizedBooks, BookNames[i])
        /\ \A i \in Retained :
               /\ DictHas(NormalizedBooks, BookNames[i])
               /\ \A h \in Retained :
                      h < i => DictIndex(NormalizedBooks, BookNames[h])
                                   < DictIndex(NormalizedBooks, BookNames[i])
               /\ LET b == raw_bookmakers[i]
                      teams == DictGet(NormalizedBooks, BookNames[i])
                  IN  /\ Len(teams) = Cardinality(ValidOutcomes(b))
                      /\ \A j \in ValidOutcomes(b) :
                             LET o == H2HOutcomesOf(b)[j]
                             IN  /\ DictHas(teams, o.name[1])
                                 /\ DictGet(teams, o.name[1]).odds = o.price[1]
                                 /\ DictGet(teams, o.name[1]).implied_prob
                                        = odds_to_probability(o.price[1])
                      /\ \A j \in 1..Len(H2HOutcomesOf(b)) \ ValidOutcomes(b) :
                             LET o == H2HOutcomesOf(b)[j]
                             IN  /\ Get(o, "name", None) # None
                                    => ~DictHas(teams, o.name[1])
                                 /\ Get(o, "price", None) # None
                                    => \A t \in 1..Len(teams) :
                                           teams[t].v.odds # o.price[1]

\* a game was normalized in which a skipped bookmaker (no usable name, or no h2h
\* market) precedes a retained bookmaker one of whose two outcomes is invalid
C12_Witness ==
    /\ norm_phase = "normalized"
    /\ \E i \in 1..Len(raw_bookmakers), k \in Retained :
          /\ i < k
          /\ ~HasName(raw_bookmakers[i]) \/ H2HMarketsOf(raw_bookmakers[i]) = {}
          /\ Len(H2HOutcomesOf(raw_bookmakers[k])) = 2
          /\ Cardinality(ValidOutcomes(raw_bookmakers[k])) = 1
          /\ Len(DictGet(NormalizedBooks, BookNames[k])) = 1

(***************************************************************************)
(* The retry budget of the prop pipeline, checked under Spec               *)
(***************************************************************************)
\* the run goes through fetch_prop_opportunities
PropPipeline == mode \in {"props", "all", "prop_opps"}

\* the attempt counter is the number of 429 answers of the current call only, so
\* a call starts at 0 whatever earlier events received, and a run over n games
\* issues at most n * (max_retries + 1) prop requests
C13_BudgetPerEvent ==
    /\ pc = "prop_req" => attempt = Len(resps) /\ attempt <= max_retries
    /\ PropPipeline =>
          /\ idx <= Len(normalized_games)
          /\ prop_requests <= idx * (max_retries + 1)
          /\ prop_requests <= Len(normalized_games) * (max_retries + 1)

\* C13: the retry budget is per event and never carried over: every call to
\* fetch_event_props starts its attempt counter at 0, a prop pipeline run over n
\* games issues at most n * (max_retries + 1) prop requests, and a run in which
\* every prop request was answered (by a payload or by an error status such as
\* 429) does not end in an exception of the prop fetch: it ends with a result.
C13_BudgetBoundsRun ==
    /\ C13_BudgetPerEvent
    /\ (PropPipeline /\ raised_by = "prop_fetch") => LastResp.kind = "exc"

====
